---- MODULE Spec2Model ----
(***************************************************************************)
(* Content script of the Knowledge Clipper extension: the page-data        *)
(* extraction pipeline (metadata readers, selection reader, structured     *)
(* extractor with markdown conversion, fallback extractor, orchestrator)   *)
(* and the message listener that answers 'extractPageData' requests.       *)
(* After it, the popup's save form and the background worker's             *)
(* saveKnowledge and updateKnowledge, and the popup's configuration form   *)
(* with the background's validateToken.                                    *)
(*                                                                         *)
(* Strings are sequences of one-character strings.  HTML markup is a       *)
(* sequence of tokens: a tag ("<h1>", "</p>", ...) or one character of     *)
(* text.  null/undefined is the sentinel Null, which is falsy like "".     *)
(***************************************************************************)
EXTENDS Integers, Sequences, FiniteSets, TLC

VARIABLES
    document,     \* the live DOM: meta tags, title, containers, body, icon links
    location,     \* window.location: href, hostname, origin
    selection,    \* window.getSelection().toString(), untrimmed
    parsed,       \* what Readability and Turndown do with this document
    requests,     \* one entry per extractPageData message the listener has handled
    channel,      \* showNotification messages sent and not yet settled
    currentPageData,    \* popup: TRUE when the extraction gave it page data
    currentDocumentId,  \* popup: the id of the saved document, 0 for null
    saveCalls,    \* one frame per saveKnowledge or updateKnowledge message
    created,      \* the documents the knowledge API has created
    storage,      \* chrome.storage.sync: apiUrl and apiToken
    screen,       \* popup: the screen shown, whether a showConfigScreen waits
                  \* for the stored configuration, whether back-btn is shown
    apiUrlField,  \* popup: value of the api-url input
    apiTokenField,    \* popup: the api-token input: value, data-masked, focus,
                      \* and whether it got the focus since the screen opened
    focusListeners,   \* popup: whether a focus listener of the api-token input
                      \* has not run yet
    validation    \* popup and background: the handleConfigSubmit under way

contentVars == <<document, location, selection, parsed, requests, channel>>

saveVars == <<currentPageData, currentDocumentId, saveCalls, created>>

configVars == <<storage, screen, apiUrlField, apiTokenField, focusListeners,
                validation>>

vars == <<document, location, selection, parsed, requests, channel,
          currentPageData, currentDocumentId, saveCalls, created,
          storage, screen, apiUrlField, apiTokenField, focusListeners,
          validation>>

----------------------------------------------------------------------------
(* Bounds of the model *)

\* extractPageData messages handled in one behaviour
MaxRequests == 2

\* length of the long strings: one more than the excerpt cut
LongLen == 301

\* String.prototype.substring(0, 300) in extractPageData
EXCERPT_LENGTH == 300

----------------------------------------------------------------------------
(* Strings *)

Null == <<"null">>

Rep(c, n) == [i \in 1..n |-> c]

Min(a, b) == IF a <= b THEN a ELSE b

\* JavaScript truthiness of a string-or-null value
Truthy(s) == s # Null /\ s # <<>>

\* mutant of Or: only null gives way to the second operand, as with ??
OrNullish(a, b) == IF a # Null THEN a ELSE b

\* a || b
Or(a, b) == IF Truthy(a) THEN a ELSE b

WhiteSpace == {" ", "\n", "\t"}

\* String.prototype.trim: lead and trail count the blanks at the two ends
Trim(s) ==
    IF \A i \in 1..Len(s) : s[i] \in WhiteSpace THEN <<>>
    ELSE LET lead  == CHOOSE k \in 0..(Len(s) - 1) :
                          /\ s[k + 1] \notin WhiteSpace
                          /\ \A j \in 1..k : s[j] \in WhiteSpace
             trail == CHOOSE k \in 0..(Len(s) - 1) :
                          /\ s[Len(s) - k] \notin WhiteSpace
                          /\ \A j \in 0..(k - 1) : s[Len(s) - j] \in WhiteSpace
         IN  SubSeq(s, lead + 1, Len(s) - trail)

\* String.prototype.substring(0, n)
Substring0(s, n) == SubSeq(s, 1, Min(n, Len(s)))

----------------------------------------------------------------------------
(* Metadata Reader *)

\* a meta tag that is not in the document
NoTag == <<"no-tag">>

MetaNames == {"og:description", "description", "twitter:description",
              "author", "article:author", "og:article:author",
              "article:published_time", "date", "pubdate",
              "keywords", "og:image", "twitter:image",
              "og:title", "twitter:title"}

\* document.querySelector('meta[property=..], meta[name=..]') and getAttribute:
\* document.meta[p] is NoTag, Null (tag without content attribute) or a string
getMetaContent(property) ==
    IF document.meta[property] = NoTag THEN <<>> ELSE document.meta[property]

getMetaDescription ==
    Or(getMetaContent("og:description"),
       Or(getMetaContent("description"),
          Or(getMetaContent("twitter:description"), <<>>)))

getMetaAuthor ==
    Or(getMetaContent("author"),
       Or(getMetaContent("article:author"),
          Or(getMetaContent("og:article:author"), <<>>)))

getMetaDate ==
    Or(getMetaContent("article:published_time"),
       Or(getMetaContent("date"),
          Or(getMetaContent("pubdate"), <<>>)))

getMetaImage ==
    Or(getMetaContent("og:image"),
       Or(getMetaContent("twitter:image"), <<>>))

getPageTitle ==
    Or(getMetaContent("og:title"),
       Or(getMetaContent("twitter:title"),
          Or(document.title, <<>>)))

\* String.prototype.split(','): the pieces between the commas
RECURSIVE SplitComma(_)
SplitComma(s) ==
    LET commas == {i \in 1..Len(s) : s[i] = ","}
    IN  IF commas = {} THEN <<s>>
        ELSE LET c == CHOOSE i \in commas : \A j \in commas : i <= j
             IN  <<SubSeq(s, 1, c - 1)>> \o SplitComma(SubSeq(s, c + 1, Len(s)))

\* mutant of getMetaKeywords: the pieces are not trimmed
getMetaKeywordsUntrimmed ==
    LET keywords == getMetaContent("keywords")
    IN  IF Truthy(keywords) THEN SplitComma(keywords) ELSE <<>>

\* lines 49-52
getMetaKeywords ==
    LET keywords == getMetaContent("keywords")
    IN  IF Truthy(keywords)
        THEN [i \in 1..Len(SplitComma(keywords)) |-> Trim(SplitComma(keywords)[i])]
        ELSE <<>>

\* a link element that is not in the document
NoLink == <<"no-link">>

IconRels == <<"icon", "shortcut icon", "apple-touch-icon">>

\* mutant of getFaviconUrl: the first link that has an href is taken
getFaviconUrlFirstHref ==
    LET found == {i \in 1..Len(IconRels) : /\ document.links[IconRels[i]] # NoLink
                                           /\ Truthy(document.links[IconRels[i]])}
    IN  IF found # {}
        THEN document.links[IconRels[CHOOSE i \in found : \A j \in found : i <= j]]
        ELSE location.origin \o <<"/", "f", "a", "v", "i", "c", "o", "n", ".", "i", "c", "o">>

\* document.links[rel] is NoLink or the link's href, already absolute
\* (empty when the link has no href)
getFaviconUrl ==
    LET found == {i \in 1..Len(IconRels) : document.links[IconRels[i]] # NoLink}
        iconLink == IF found = {} THEN NoLink
                    ELSE document.links[IconRels[
                             CHOOSE i \in found : \A j \in found : i <= j]]
    IN  IF iconLink # NoLink /\ Truthy(iconLink)
        THEN iconLink
        ELSE location.origin \o <<"/", "f", "a", "v", "i", "c", "o", "n", ".", "i", "c", "o">>

----------------------------------------------------------------------------
(* Selection Reader *)

\* mutant of getSelectedText: the selection read by the first request is kept
\* and served to the later ones
getSelectedTextCached ==
    IF requests # <<>> THEN Trim(requests[1].selection) ELSE Trim(selection)

\* mutant of getSelectedText: the selection is not trimmed
getSelectedTextUntrimmed == selection

\* lines 93-97
getSelectedText == Trim(selection)

----------------------------------------------------------------------------
(* Structured Extractor and Markup Normalizer *)

\* line 108 on a document: every script, style and noscript element removed,
\* and with them the text that was not rendered
StripScripts(doc) ==
    [doc EXCEPT !.scripts = 0,
                !.elements = [sel \in DOMAIN doc.elements |->
                                 [doc.elements[sel] EXCEPT
                                     !.textContent = doc.elements[sel].innerText]],
                !.body = [doc.body EXCEPT !.textContent = doc.body.innerText]]

\* mutant of liveDocumentAfterExtract: the elements are removed from the
\* document itself, not from a clone
liveDocumentStripped ==
    IF parsed.throws = "clone" THEN document ELSE StripScripts(document)

\* mutant of liveDocumentAfterExtract: no clone is made, the removal works
\* on the document on every request
liveDocumentStrippedInPlace == StripScripts(document)

\* lines 105-118: the live document once extractMainContent has run; the
\* removal and Readability work on document.cloneNode(true)
liveDocumentAfterExtract == document

\* the null of an article-valued expression
NullArticle ==
    [isNull |-> TRUE, title |-> Null, content |-> Null, textContent |-> Null,
     excerpt |-> Null, byline |-> Null, length |-> 0, siteName |-> Null]

\* TurndownService with headingStyle atx, hr "---", bulletListMarker "-",
\* emDelimiter "_": what one token becomes (code blocks are not modelled)
TurndownToken(t) ==
    CASE t \in {"<div>", "</div>", "<p>", "</p>", "</h1>"} -> <<"\n", "\n">>
      [] t = "<h1>"   -> <<"\n", "\n", "#", " ">>
      [] t \in {"<em>", "</em>"} -> <<"_">>
      [] t = "<hr>"   -> <<"\n", "\n", "-", "-", "-", "\n", "\n">>
      [] t = "<li>"   -> <<"-", " ", " ", " ">>
      [] t = "</li>"  -> <<"\n">>
      [] OTHER        -> <<t>>

RECURSIVE TurndownTokens(_)
TurndownTokens(html) ==
    IF Len(html) = 0 THEN <<>>
    ELSE IF Len(html) = 1 THEN TurndownToken(html[1])
    ELSE LET half == Len(html) \div 2
         IN  TurndownTokens(SubSeq(html, 1, half))
                 \o TurndownTokens(SubSeq(html, half + 1, Len(html)))

\* turndownService.turndown(html): the tokens converted, and the leading and
\* trailing blank space of the result removed
turndown(html) == Trim(TurndownTokens(html))

\* mutant of markdownContent: the markup is passed on unconverted
markdownContentRaw(article) ==
    IF Truthy(article.content)
    THEN article.content
    ELSE Or(article.textContent, <<>>)

\* lines 130-133: the markdown of the article (article.content is the markup;
\* without markup, the plain text of the article)
markdownContent(article) ==
    IF Truthy(article.content)
    THEN turndown(article.content)
    ELSE Or(article.textContent, <<>>)

\* mutant of wrapArticle: length is Readability's own length, the length of
\* the plain text, not that of the markdown
wrapArticleReadabilityLength(article) ==
    [isNull      |-> FALSE,
     title       |-> article.title,
     content     |-> markdownContent(article),
     textContent |-> Null,
     excerpt     |-> Or(article.excerpt, <<>>),
     byline      |-> Or(article.byline, <<>>),
     length      |-> article.length,
     siteName    |-> Or(article.siteName, <<>>)]

\* lines 135-142: the object extractMainContent returns for an article
wrapArticle(article) ==
    [isNull      |-> FALSE,
     title       |-> article.title,
     content     |-> markdownContent(article),
     textContent |-> Null,
     excerpt     |-> Or(article.excerpt, <<>>),
     byline      |-> Or(article.byline, <<>>),
     length      |-> Len(markdownContent(article)),
     siteName    |-> Or(article.siteName, <<>>)]

\* parsed.throws is the step of the try block that throws on this document
\* ("none", "clone", "parse", "turndown"); parsed.article is what
\* reader.parse() returns when it is reached
extractMainContent ==
    IF parsed.throws \in {"clone", "parse"} THEN NullArticle
    ELSE IF parsed.article.isNull THEN NullArticle
    ELSE IF parsed.throws = "turndown" THEN NullArticle
    ELSE wrapArticle(parsed.article)

----------------------------------------------------------------------------
(* Fallback Extractor *)

selectors == <<"article", "main", "[role=main]", ".article-content",
               ".post-content", ".entry-content", ".content">>

NoElement == [exists |-> FALSE, innerText |-> <<>>, textContent |-> <<>>]

\* element.innerText || element.textContent || ""
visibleText(element) == Or(element.innerText, Or(element.textContent, <<>>))

\* the value is [threw, value]: reading document.body.innerText throws a
\* TypeError when the document has no body
extractFallbackContent ==
    LET found == {i \in 1..Len(selectors) : document.elements[selectors[i]].exists}
    IN  IF found # {}
        THEN [threw |-> FALSE,
              value |-> visibleText(document.elements[selectors[
                            CHOOSE i \in found : \A j \in found : i <= j]])]
        ELSE IF document.body.exists
        THEN [threw |-> FALSE, value |-> visibleText(document.body)]
        ELSE [threw |-> TRUE, value |-> <<>>]

----------------------------------------------------------------------------
(* Extraction Orchestrator *)

\* mutant of baseResult: with a selection the extractor's result is not used
baseResultSelectionOnly(selectedText, article) ==
    [url           |-> location.href,
     domain        |-> location.hostname,
     title         |-> getPageTitle,
     content       |-> <<>>,
     excerpt       |-> <<>>,
     selectedText  |-> selectedText,
     hasSelection  |-> Len(selectedText) > 0,
     description   |-> getMetaDescription,
     author        |-> Or(getMetaAuthor,
                          IF ~article.isNull /\ Len(selectedText) = 0
                          THEN article.byline ELSE <<>>),
     publishedDate |-> getMetaDate,
     keywords      |-> getMetaKeywords,
     ogImage       |-> getMetaImage,
     favicon       |-> getFaviconUrl,
     contentLength |-> 0,
     siteName      |-> IF ~article.isNull /\ Len(selectedText) = 0
                       THEN article.siteName
                       ELSE location.hostname]

\* lines 189-214: the result before the content is chosen
baseResult(selectedText, article) ==
    [url           |-> location.href,
     domain        |-> location.hostname,
     title         |-> getPageTitle,
     content       |-> <<>>,
     excerpt       |-> <<>>,
     selectedText  |-> selectedText,
     hasSelection  |-> Len(selectedText) > 0,
     description   |-> getMetaDescription,
     author        |-> Or(getMetaAuthor,
                          IF ~article.isNull THEN article.byline ELSE <<>>),
     publishedDate |-> getMetaDate,
     keywords      |-> getMetaKeywords,
     ogImage       |-> getMetaImage,
     favicon       |-> getFaviconUrl,
     contentLength |-> 0,
     siteName      |-> IF ~article.isNull THEN article.siteName
                       ELSE location.hostname]

\* mutant of contentSource: the article is tested before the selection
contentSourceArticleFirst(hasSelection, article) ==
    IF ~article.isNull /\ Truthy(article.content) THEN "STRUCTURED"
    ELSE IF hasSelection THEN "SELECTION"
    ELSE "FALLBACK"

\* lines 217-232: which branch of the if / else if / else is taken
contentSource(hasSelection, article) ==
    IF hasSelection THEN "SELECTION"
    ELSE IF ~article.isNull /\ Truthy(article.content) THEN "STRUCTURED"
    ELSE "FALLBACK"

\* mutant of selectionContent: the excerpt is the whole selection
selectionContentUncut(result, selectedText) ==
    [result EXCEPT !.content = selectedText,
                   !.excerpt = selectedText,
                   !.contentLength = Len(selectedText)]

\* lines 219-221
selectionContent(result, selectedText) ==
    [result EXCEPT !.content = selectedText,
                   !.excerpt = Substring0(selectedText, EXCERPT_LENGTH),
                   !.contentLength = Len(selectedText)]

\* mutant of structuredContent: the extractor's title is taken even when empty
structuredContentTitleAlways(result, article) ==
    [result EXCEPT !.content = article.content,
                   !.excerpt = Or(article.excerpt,
                                  Substring0(article.content, EXCERPT_LENGTH)),
                   !.contentLength = IF article.length # 0 THEN article.length
                                     ELSE Len(article.content),
                   !.title = article.title]

\* lines 224-231
structuredContent(result, article) ==
    [result EXCEPT !.content = article.content,
                   !.excerpt = Or(article.excerpt,
                                  Substring0(article.content, EXCERPT_LENGTH)),
                   !.contentLength = IF article.length # 0 THEN article.length
                                     ELSE Len(article.content),
                   !.title = IF Truthy(article.title) /\ Len(article.title) > 0
                             THEN article.title ELSE result.title]

\* lines 242-244, text being what extractFallbackContent returned
fallbackContent(result, text) ==
    [result EXCEPT !.content = text,
                   !.excerpt = Substring0(text, EXCERPT_LENGTH),
                   !.contentLength = Len(text)]

\* mutant of descriptionExcerpt: the description is never used
descriptionExcerptSkipped(result) == result

\* lines 248-250
descriptionExcerpt(result) ==
    IF ~Truthy(result.excerpt) /\ Truthy(result.description)
    THEN [result EXCEPT !.excerpt = result.description]
    ELSE result

\* mutant of notifyCalls: the notification is sent whenever nothing is selected
notifyCallsWithoutSelection(source) == IF source # "SELECTION" THEN 1 ELSE 0

\* lines 232-239: the calls of chrome.runtime.sendMessage({action:
\* 'showNotification', ...}) made on a branch
notifyCalls(source) == IF source = "FALLBACK" THEN 1 ELSE 0

NoData == [none |-> TRUE]

\* extractPageData.  sendThrows: chrome.runtime.sendMessage throws when it is
\* called.  The value tells whether the function threw, the branch it took,
\* the calls of sendMessage it made, the messages that left, and the result.
extractPageData(sendThrows) ==
    LET selectedText == getSelectedText
        hasSelection == Len(selectedText) > 0
        article      == extractMainContent
        result       == baseResult(selectedText, article)
        source       == contentSource(hasSelection, article)
        fallback     == extractFallbackContent
        calls        == notifyCalls(source)
        sent         == IF sendThrows THEN 0 ELSE calls
    IN  CASE calls > 0 /\ sendThrows ->
               [threw |-> TRUE, error |-> "Extension context invalidated.",
                source |-> source, calls |-> calls, sent |-> sent, data |-> NoData]
          [] ~(calls > 0 /\ sendThrows) /\ source = "SELECTION" ->
               [threw |-> FALSE, error |-> "", source |-> source, calls |-> calls,
                sent |-> sent,
                data |-> descriptionExcerpt(selectionContent(result, selectedText))]
          [] ~(calls > 0 /\ sendThrows) /\ source = "STRUCTURED" ->
               [threw |-> FALSE, error |-> "", source |-> source, calls |-> calls,
                sent |-> sent,
                data |-> descriptionExcerpt(structuredContent(result, article))]
          [] ~(calls > 0 /\ sendThrows) /\ source = "FALLBACK" /\ fallback.threw ->
               [threw |-> TRUE, error |-> "Cannot read properties of null",
                source |-> source, calls |-> calls, sent |-> sent, data |-> NoData]
          [] ~(calls > 0 /\ sendThrows) /\ source = "FALLBACK" /\ ~fallback.threw ->
               [threw |-> FALSE, error |-> "", source |-> source, calls |-> calls,
                sent |-> sent,
                data |-> descriptionExcerpt(fallbackContent(result, fallback.value))]

\* mutant of respond: no catch block, an exception leaves the listener
respondWithoutCatch(pageData) ==
    IF pageData.threw
    THEN <<>>
    ELSE <<[success |-> TRUE, error |-> "", data |-> pageData.data]>>

\* lines 258-264: the calls of sendResponse the listener makes for the outcome
\* of extractPageData (the try block, and the catch block when it threw)
respond(pageData) ==
    IF pageData.threw
    THEN <<[success |-> FALSE, error |-> pageData.error, data |-> NoData]>>
    ELSE <<[success |-> TRUE, error |-> "", data |-> pageData.data]>>

----------------------------------------------------------------------------
(* The pages of the model *)

LongText(c) == Rep(c, LongLen)

NoMeta == [n \in MetaNames |-> NoTag]

NoLinks == [r \in {IconRels[i] : i \in 1..Len(IconRels)} |-> NoLink]

\* an element with rendered text `inner` and, in script, style and noscript
\* elements inside it, the not rendered text `hidden`
Element(inner, hidden) ==
    [exists |-> TRUE, innerText |-> inner, textContent |-> inner \o hidden]

\* a document whose body holds an <article> element, a .content element and
\* text outside both (rest); the other containers are absent; scripts counts
\* the script, style and noscript elements
Document(meta, articleEl, contentEl, rest) ==
    [meta     |-> meta,
     title    |-> <<"P">>,
     links    |-> NoLinks,
     scripts  |-> 1,
     elements |-> [sel \in {selectors[i] : i \in 1..Len(selectors)} |->
                      CASE sel = "article"  -> articleEl
                        [] sel = ".content" -> contentEl
                        [] OTHER            -> NoElement],
     body     |-> [exists      |-> TRUE,
                   innerText   |-> articleEl.innerText \o contentEl.innerText \o rest,
                   textContent |-> articleEl.textContent \o contentEl.textContent \o rest]]

\* a document without a body element (an SVG or XML document)
BodylessDocument(meta) ==
    [meta     |-> meta,
     title    |-> <<"P">>,
     links    |-> NoLinks,
     scripts  |-> 1,
     elements |-> [sel \in {selectors[i] : i \in 1..Len(selectors)} |-> NoElement],
     body     |-> NoElement]

PageLocation ==
    [href     |-> <<"s", ":", "/", "/", "e", ".", "c", "/", "p">>,
     hostname |-> <<"e", ".", "c">>,
     origin   |-> <<"s", ":", "/", "/", "e", ".", "c">>]

\* the markup and plain text Readability may hand back
Markups ==
    { [content |-> <<"<h1>", "a", "</h1>", "<p>", "b", "</p>">>, textContent |-> <<"a", "b">>],
      [content |-> <<"<div>", "</div>">>, textContent |-> <<>>],
      [content |-> <<"<p>">> \o LongText("c") \o <<"</p>">>, textContent |-> LongText("c")],
      [content |-> <<>>, textContent |-> <<"t">>],
      [content |-> <<>>, textContent |-> <<>>],
      [content |-> Null, textContent |-> Null] }

ReadabilityArticle(title, markup, excerpt, byline, siteName) ==
    [isNull |-> FALSE, title |-> title, content |-> markup.content,
     textContent |-> markup.textContent, excerpt |-> excerpt, byline |-> byline,
     length |-> Len(Or(markup.textContent, <<>>)), siteName |-> siteName]

Articles ==
    { ReadabilityArticle(<<"T">>, m, e, Null, Null) :
        m \in Markups, e \in {Null, <<"E">>, LongText("e")} }
    \cup
    { ReadabilityArticle(<<>>, m, Null, Null, Null) :
        m \in {mm \in Markups : mm.textContent \in {<<"a", "b">>, <<"t">>}} }
    \cup
    { ReadabilityArticle(<<"T">>, m, Null, b, n) :
        m \in {mm \in Markups : mm.textContent \in {<<"a", "b">>, <<>>}},
        b \in {Null, <<"B">>}, n \in {Null, <<"S">>} }

\* every outcome of the try block of extractMainContent
ParseOutcomes ==
    { [throws |-> "none", article |-> a] : a \in Articles \cup {NullArticle} }
    \cup
    { [throws |-> t, article |-> NullArticle] : t \in {"clone", "parse"} }
    \cup
    { [throws |-> "turndown", article |-> a] :
        a \in {aa \in Articles : aa.title = <<>> /\ aa.excerpt = Null
                                 /\ aa.textContent = <<"a", "b">>} }

\* outcomes after which the content comes from the fallback extractor
FailedOutcomes ==
    { o \in ParseOutcomes :
        \/ o.throws = "parse"
        \/ o.throws = "none" /\ o.article.isNull
        \/ o.throws = "none" /\ ~o.article.isNull /\ o.article.excerpt = Null
           /\ o.article.byline = Null /\ o.article.siteName = Null
           /\ o.article.content = <<"<div>", "</div>">> }

BodyMetas ==
    { NoMeta,
      [NoMeta EXCEPT !["description"] = LongText("d")],
      [NoMeta EXCEPT !["og:description"] = <<>>, !["twitter:description"] = <<"W">>] }

Documents ==
    { Document(NoMeta, NoElement, NoElement, r) : r \in {<<>>, <<"r">>, LongText("r")} }
    \cup
    { Document(m, NoElement, NoElement, <<>>) : m \in BodyMetas }
    \cup
    { Document(NoMeta, a, NoElement, r) :
        a \in {Element(<<>>, <<>>), Element(<<"x">>, <<>>), Element(<<>>, <<"s">>)},
        r \in {<<>>, <<"r">>} }
    \cup
    { Document(NoMeta, a, Element(<<"m">>, <<>>), <<>>) :
        a \in {NoElement, Element(<<>>, <<>>), Element(<<"x">>, <<>>)} }
    \cup
    { BodylessDocument(NoMeta) }

DescribedDocument ==
    Document([NoMeta EXCEPT !["og:description"] = <<"D">>], NoElement, NoElement, <<"r">>)

AuthoredDocument ==
    Document([NoMeta EXCEPT !["og:description"] = Null, !["author"] = <<"A">>],
             NoElement, NoElement, <<"r">>)

TitledDocument ==
    Document([NoMeta EXCEPT !["og:title"] = <<"O">>, !["twitter:title"] = <<"V">>],
             NoElement, NoElement, <<"r">>)

\* a document whose head is the subject: its meta tags, its title and its
\* icon links
HeadDocument(meta, title, links) ==
    [Document(meta, NoElement, NoElement, <<"r">>) EXCEPT !.title = title,
                                                         !.links = links]

\* the priority lists of the metadata reader's meta tags
MetaChains ==
    { <<"og:description", "description", "twitter:description">>,
      <<"author", "article:author", "og:article:author">>,
      <<"article:published_time", "date", "pubdate">>,
      <<"og:image", "twitter:image">>,
      <<"og:title", "twitter:title">> }

\* what the k-th tag of a list may be: absent, without a content attribute
\* (first tag only), with an empty content, or with a content of its own
TagStates(k) ==
    {NoTag, <<>>, <<CASE k = 1 -> "1" [] k = 2 -> "2" [] OTHER -> "3">>}
    \cup (IF k = 1 THEN {Null} ELSE {})

\* the meta tags of one priority list in every combination, no other tag
ChainMetas(chain) ==
    { [n \in MetaNames |->
          IF \E k \in 1..Len(chain) : chain[k] = n
          THEN v[CHOOSE k \in 1..Len(chain) : chain[k] = n]
          ELSE NoTag] :
        v \in { w \in [1..Len(chain) -> UNION {TagStates(k) : k \in 1..3}] :
                    \A k \in 1..Len(chain) : w[k] \in TagStates(k) } }

\* what the content of the keywords tag may be
KeywordContents ==
    { NoTag, Null, <<>>,
      <<"a">>,
      <<"a", ",", " ", "b", " ", ",", "c">>,
      <<" ", "a", " ", "b", "\t", ",", "\n", "c">>,
      <<"a", ",", ",", "b">>,
      <<",", "a", ",">>,
      <<" ">>,
      <<",">> }

\* the icon links of a document in every combination: each absent, without
\* href, or with an href of its own
IconLinks ==
    { [r \in {IconRels[i] : i \in 1..Len(IconRels)} |->
          v[CHOOSE i \in 1..Len(IconRels) : IconRels[i] = r]] :
        v \in { w \in [1..Len(IconRels) ->
                          {NoLink, <<>>, <<"i">>, <<"s">>, <<"t">>}] :
                    /\ w[1] \in {NoLink, <<>>, <<"i">>}
                    /\ w[2] \in {NoLink, <<>>, <<"s">>}
                    /\ w[3] \in {NoLink, <<>>, <<"t">>} } }

HeadDocuments ==
    { HeadDocument(m, t, NoLinks) :
        m \in UNION {ChainMetas(chain) : chain \in MetaChains \ {<<"og:title", "twitter:title">>}},
        t \in {<<"P">>} }
    \cup
    { HeadDocument(m, t, NoLinks) :
        m \in ChainMetas(<<"og:title", "twitter:title">>), t \in {<<>>, <<"P">>} }
    \cup
    { HeadDocument([NoMeta EXCEPT !["keywords"] = k], <<"P">>, NoLinks) :
        k \in KeywordContents }
    \cup
    { HeadDocument(NoMeta, <<"P">>, l) : l \in IconLinks }

\* the pages of the metadata reader: the extractor gives an article without
\* title, excerpt, byline and site name, or (for two documents) nothing
HeadPages ==
    { [document |-> d,
       parsed |-> [throws |-> "none",
                   article |-> ReadabilityArticle(<<>>,
                                   [content |-> <<"<h1>", "a", "</h1>", "<p>", "b", "</p>">>,
                                    textContent |-> <<"a", "b">>],
                                   Null, Null, Null)]] :
        d \in HeadDocuments }
    \cup
    { [document |-> HeadDocument(m, <<"P">>, NoLinks),
       parsed |-> [throws |-> "none", article |-> NullArticle]] :
        m \in {NoMeta, [NoMeta EXCEPT !["author"] = <<>>, !["article:author"] = <<"2">>]} }

\* a page: a document and what the libraries make of it
Pages ==
    { [document |-> DescribedDocument, parsed |-> o] : o \in ParseOutcomes }
    \cup
    { [document |-> AuthoredDocument, parsed |-> o] :
        o \in {oo \in ParseOutcomes :
                  oo.article.isNull \/ oo.article.textContent = <<"a", "b">>} }
    \cup
    { [document |-> TitledDocument, parsed |-> o] :
        o \in {oo \in ParseOutcomes :
                  /\ oo.throws = "none"
                  /\ \/ oo.article.isNull
                     \/ /\ oo.article.textContent = <<"a", "b">>
                        /\ oo.article.excerpt = Null
                        /\ oo.article.byline = Null
                        /\ oo.article.siteName = Null} }
    \cup
    { [document |-> d, parsed |-> [throws |-> "none", article |-> NullArticle]] :
        d \in Documents }
    \cup
    { [document |-> d, parsed |-> o] :
        d \in {Document(NoMeta, NoElement, NoElement, <<>>),
               Document(NoMeta, Element(<<>>, <<>>), NoElement, <<"r">>),
               BodylessDocument(NoMeta)},
        o \in FailedOutcomes }

\* what the user may have selected, as window.getSelection().toString() gives it
Selections ==
    { <<>>,
      <<" ", "\n">>,
      <<" ", "h", "i", " ">>,
      LongText("s") \o <<" ">> }

----------------------------------------------------------------------------
(* The content script as a state machine *)

\* src/storage.js getConfig: the defaults of a configuration never saved
DefaultConfig == [apiUrl |-> <<>>, apiToken |-> <<>>]

\* the api-token input before the configuration screen was ever shown
\* (typed: what the user typed into it and is still there; touched: it got
\* the focus since showConfigScreen was called)
UntouchedField ==
    [value |-> <<>>, masked |-> FALSE, focused |-> FALSE, touched |-> FALSE,
     typed |-> <<>>]

\* no handleConfigSubmit under way
\* (error: the text of config-error; disabled: save-config-btn.disabled;
\* field and stored: the api-token input and the stored token at the submit)
NoValidation ==
    [pc |-> "none", apiUrl |-> <<>>, apiToken |-> <<>>, valid |-> FALSE,
     error |-> "", disabled |-> FALSE, field |-> UntouchedField, stored |-> <<>>]

\* the save screen is displayed, no showConfigScreen is waiting for the
\* stored configuration, the back button is hidden
SaveScreen == [shown |-> "save", loading |-> FALSE, back |-> FALSE]

\* the configuration screen is hidden and was never used
ConfigFormClosed ==
    /\ screen = SaveScreen
    /\ apiUrlField = <<>>
    /\ apiTokenField = UntouchedField
    /\ focusListeners = FALSE
    /\ validation = NoValidation

\* no popup is open: nothing extracted for it, no document id, no save
\* call, nothing stored, an untouched configuration form
PopupClosed ==
    /\ currentPageData = FALSE
    /\ currentDocumentId = 0
    /\ saveCalls = <<>>
    /\ created = 0
    /\ storage = DefaultConfig
    /\ ConfigFormClosed

Init ==
    /\ \E page \in Pages :
          /\ document = page.document
          /\ parsed = page.parsed
    /\ location = PageLocation
    /\ selection = <<>>
    /\ requests = <<>>
    /\ channel = 0
    /\ PopupClosed

\* the same program started on a page of the metadata reader
HeadInit ==
    /\ \E page \in HeadPages :
          /\ document = page.document
          /\ parsed = page.parsed
    /\ location = PageLocation
    /\ selection = <<>>
    /\ requests = <<>>
    /\ channel = 0
    /\ PopupClosed

\* the user selects text on the page, or clears the selection
SelectText(text) ==
    /\ text # selection
    /\ selection' = text
    /\ UNCHANGED <<document, location, parsed, requests, channel>>
    /\ UNCHANGED saveVars
    /\ UNCHANGED configVars

\* lines 256-267: the listener is called with a message.  For an
\* extractPageData message an entry is added to requests: the selection as it
\* was read, the branch taken, the calls of sendMessage and the calls of
\* sendResponse.  For any other message the listener does nothing.
OnMessage(action, sendThrows) ==
    /\ Len(requests) < MaxRequests
    /\ IF action = "extractPageData"
       THEN LET pageData == extractPageData(sendThrows)
            IN  /\ requests' = Append(requests,
                       [action |-> action, selection |-> selection,
                        source |-> pageData.source,
                        calls |-> pageData.calls, sent |-> pageData.sent,
                        responses |-> respond(pageData)])
                /\ channel' = channel + pageData.sent
                /\ document' = liveDocumentAfterExtract
       ELSE UNCHANGED <<requests, channel, document>>
    /\ UNCHANGED <<location, selection, parsed>>
    /\ UNCHANGED saveVars
    /\ UNCHANGED configVars

\* a showNotification message leaves the channel: the background receives it,
\* shows the notification and answers (background.js lines 60-64), or its
\* delivery fails and the promise of sendMessage rejects.  extractPageData
\* dropped that promise, so neither outcome reaches the content script.
NotificationSettled ==
    /\ channel > 0
    /\ channel' = channel - 1
    /\ UNCHANGED <<document, location, selection, parsed, requests>>
    /\ UNCHANGED saveVars
    /\ UNCHANGED configVars

Next ==
    \/ \E text \in Selections : SelectText(text)
    \/ \E action \in {"extractPageData", "captureScreenshot"},
          sendThrows \in BOOLEAN : OnMessage(action, sendThrows)
    \/ NotificationSettled

Spec == Init /\ [][Next]_vars

HeadSpec == HeadInit /\ [][Next]_vars

----------------------------------------------------------------------------
(* Properties *)

\* the requests for extraction the listener has handled
Extractions == {i \in 1..Len(requests) : requests[i].action = "extractPageData"}

Answered(i) == Len(requests[i].responses) = 1

Succeeded(i) == Answered(i) /\ requests[i].responses[1].success

Record(i) == requests[i].responses[1].data

\* the trimmed selection the page had when request i was handled
SelectedAt(i) == Trim(requests[i].selection)

\* the extractor's excerpt for this document, empty when it returns null
ExtractorExcerpt ==
    IF extractMainContent.isNull THEN <<>> ELSE extractMainContent.excerpt

\* the branch the inputs of request i call for
ExpectedSource(i) ==
    IF SelectedAt(i) # <<>> THEN "SELECTION"
    ELSE IF ~extractMainContent.isNull /\ extractMainContent.content # <<>>
    THEN "STRUCTURED"
    ELSE "FALLBACK"

RECURSIVE FirstNonEmpty(_)
FirstNonEmpty(chain) ==
    IF chain = <<>> THEN <<>>
    ELSE IF Truthy(Head(chain)) THEN Head(chain)
    ELSE FirstNonEmpty(Tail(chain))

RECURSIVE TotalCalls(_)
TotalCalls(n) == IF n = 0 THEN 0 ELSE requests[n].calls + TotalCalls(n - 1)

\* C1: whenever the trimmed selection is not empty, the request succeeds with
\* hasSelection = true and content equal to the trimmed selection, whatever
\* the structured extractor returns and whatever the containers hold.
C1_SelectionWins ==
    \A i \in Extractions :
        SelectedAt(i) # <<>> =>
            /\ Succeeded(i)
            /\ Record(i).hasSelection
            /\ Record(i).content = SelectedAt(i)

\* a selection with surrounding blanks on a page with a usable article
C1_Witness ==
    \E i \in Extractions :
        /\ SelectedAt(i) # <<>>
        /\ requests[i].selection # SelectedAt(i)
        /\ ~extractMainContent.isNull /\ extractMainContent.content # <<>>
        /\ Succeeded(i)
        /\ Record(i).content = SelectedAt(i)

\* C2: in every returned record, on each of the three branches, contentLength
\* is the length of content.
C2_ContentLengthExact ==
    \A i \in Extractions :
        Succeeded(i) => Record(i).contentLength = Len(Record(i).content)

\* a structured record whose markdown is neither as long as the markup nor as
\* long as the article's plain text
C2_Witness ==
    \E i \in Extractions :
        /\ Succeeded(i)
        /\ requests[i].source = "STRUCTURED"
        /\ Record(i).contentLength = Len(Record(i).content)
        /\ Len(Record(i).content) # Len(parsed.article.content)
        /\ Len(Record(i).content) # parsed.article.length

C4_NotifyOnceOnFallback ==
    /\ \A i \in Extractions :
          /\ requests[i].source = ExpectedSource(i)
          /\ requests[i].calls = IF ExpectedSource(i) = "FALLBACK" THEN 1 ELSE 0
          /\ requests[i].sent <= requests[i].calls
    /\ channel <= TotalCalls(Len(requests))

\* one request on the fallback branch and one on the selection branch
C4_Witness ==
    \E i, j \in Extractions :
        /\ requests[i].source = "FALLBACK" /\ requests[i].calls = 1
        /\ requests[j].source = "SELECTION" /\ requests[j].calls = 0
        /\ channel = 1

\* C5: every extractPageData request is answered exactly once, with success
\* and a record or with failure and a message; an exception inside extraction
\* becomes the failure response.
C5_AlwaysOneResponse ==
    \A i \in Extractions :
        /\ Len(requests[i].responses) = 1
        /\ LET r == requests[i].responses[1]
           IN  \/ r.success /\ "content" \in DOMAIN r.data
               \/ ~r.success /\ r.error # "" /\ r.data = NoData

\* a request during which extraction threw and that was answered with failure
C5_Witness ==
    \E i \in Extractions :
        /\ requests[i].source = "FALLBACK"
        /\ Answered(i)
        /\ ~requests[i].responses[1].success
        /\ requests[i].responses[1].error # ""

\* C6: on the FALLBACK branch of a page with a body, the request succeeds
\* whether or not the notification could be sent.
C6_NotificationFailureHarmless ==
    \A i \in Extractions :
        requests[i].source = "FALLBACK" /\ document.body.exists => Succeeded(i)

\* C7: with an empty selection and a null extractor result, content is empty
\* only if the body has no visible text.
C7_FallbackMonotonic ==
    \A i \in Extractions :
        /\ SelectedAt(i) = <<>>
        /\ extractMainContent.isNull
        /\ Succeeded(i)
        /\ Record(i).content = <<>>
        => document.body.innerText = <<>>

\* C8 as stated: the excerpt is the first non-empty of extractor excerpt,
\* first 300 characters of content, page description, empty string.
C8_ExcerptChainAlways ==
    \A i \in Extractions :
        Succeeded(i) =>
            Record(i).excerpt =
                FirstNonEmpty(<<ExtractorExcerpt,
                                Substring0(Record(i).content, EXCERPT_LENGTH),
                                Record(i).description>>)

\* C8 amended: the extractor excerpt heads the chain on the STRUCTURED branch
\* only; on the SELECTION and FALLBACK branches the excerpt is the first
\* non-empty of first 300 characters of content, page description, empty string.
C8_ExcerptChain ==
    \A i \in Extractions :
        Succeeded(i) =>
            Record(i).excerpt =
                FirstNonEmpty(<<IF requests[i].source = "STRUCTURED"
                                THEN ExtractorExcerpt ELSE <<>>,
                                Substring0(Record(i).content, EXCERPT_LENGTH),
                                Record(i).description>>)

\* a structured record whose excerpt is the extractor's, not the cut content
C8_Witness ==
    \E i \in Extractions :
        /\ Succeeded(i)
        /\ requests[i].source = "STRUCTURED"
        /\ Truthy(ExtractorExcerpt)
        /\ Record(i).excerpt = ExtractorExcerpt
        /\ Record(i).excerpt # Substring0(Record(i).content, EXCERPT_LENGTH)

\* C9 as stated: the excerpt of every record has at most 300 characters.
C9_ExcerptAtMost300 ==
    \A i \in Extractions :
        Succeeded(i) => Len(Record(i).excerpt) <= EXCERPT_LENGTH

\* C9 amended: the excerpt has at most 300 characters when it is cut from the
\* selection or from the content (SELECTION; STRUCTURED without an extractor
\* excerpt; FALLBACK with content); an extractor excerpt or a page description
\* is returned as it is.
C9_CutExcerptAtMost300 ==
    \A i \in Extractions :
        Succeeded(i) =>
            /\ \/ requests[i].source = "SELECTION"
               \/ requests[i].source = "STRUCTURED" /\ ~Truthy(ExtractorExcerpt)
               \/ requests[i].source = "FALLBACK" /\ Record(i).content # <<>>
               => Len(Record(i).excerpt) <= EXCERPT_LENGTH
            /\ requests[i].source = "STRUCTURED" /\ Truthy(ExtractorExcerpt)
               => Record(i).excerpt = ExtractorExcerpt
            /\ requests[i].source = "FALLBACK" /\ Record(i).content = <<>>
               => Record(i).excerpt = Record(i).description

\* a selection longer than 300 characters whose excerpt has exactly 300
C9_Witness ==
    \E i \in Extractions :
        /\ Succeeded(i)
        /\ requests[i].source = "SELECTION"
        /\ Len(Record(i).content) > EXCERPT_LENGTH
        /\ Len(Record(i).excerpt) = EXCERPT_LENGTH

\* C10: siteName is the extractor's siteName when that is not empty and the
\* host name otherwise.
C10_SiteNameOrHost ==
    \A i \in Extractions :
        Succeeded(i) =>
            Record(i).siteName =
                IF ~extractMainContent.isNull /\ Truthy(extractMainContent.siteName)
                THEN extractMainContent.siteName
                ELSE location.hostname

\* the content attribute of the meta tag named p, empty when the document has
\* no such tag or the tag has no content attribute
TagValue(p) ==
    IF document.meta[p] \in {NoTag, Null} THEN <<>> ELSE document.meta[p]

\* the title the metadata gives: og:title, then twitter:title, then the
\* document title
MetaTitle ==
    FirstNonEmpty(<<TagValue("og:title"), TagValue("twitter:title"), document.title>>)

\* C11: the title of a record is the extractor's title exactly when the
\* request took the STRUCTURED branch and the extractor's title is not empty;
\* on every other request it is the metadata title (og:title, then
\* twitter:title, then the document title).
C11_TitleSource ==
    \A i \in Extractions :
        Succeeded(i) =>
            Record(i).title =
                IF /\ requests[i].source = "STRUCTURED"
                   /\ parsed.article.title \notin {<<>>, Null}
                THEN parsed.article.title
                ELSE MetaTitle

\* a page with an og:title answered two ways: STRUCTURED with the
\* extractor's title in place of og:title, and SELECTION with og:title kept
C11_Witness ==
    /\ TagValue("og:title") # <<>>
    /\ \E i, j \in Extractions :
          /\ Succeeded(i) /\ requests[i].source = "STRUCTURED"
          /\ Record(i).title = parsed.article.title
          /\ Record(i).title # MetaTitle
          /\ Succeeded(j) /\ requests[j].source = "SELECTION"
          /\ Record(j).title = TagValue("og:title")

\* C12: two requests handled with the same selection on the document, which
\* nothing but the extraction itself could have changed, are answered with
\* the same record whenever both are answered with a record: the earlier one
\* leaves nothing behind that the later one reads.
C12_Idempotent ==
    \A i, j \in Extractions :
        (/\ requests[i].selection = requests[j].selection
         /\ Succeeded(i) /\ Succeeded(j))
        => Record(i) = Record(j)

\* two requests answered alike on a page whose fallback content is text of
\* script elements, the text extractMainContent removes from its clone
C12_Witness ==
    \E i, j \in Extractions :
        /\ i < j
        /\ requests[i].selection = requests[j].selection
        /\ Succeeded(i) /\ Succeeded(j)
        /\ requests[i].source = "FALLBACK"
        /\ Record(i).content # <<>>
        /\ Record(i).content = document.elements["article"].textContent
        /\ document.elements["article"].innerText = <<>>
        /\ Record(j) = Record(i)

\* C13: when requests follow one another with selection changes in between,
\* every record is built from the selection and the document its own request
\* read: selectedText, the branch and the selection content are those of its
\* own selection, url and domain those of the page, and the records of the
\* requests that read an empty selection do not differ, whatever the requests
\* between them read.
C13_OwnSnapshot ==
    \A i \in Extractions :
        Succeeded(i) =>
            /\ Record(i).selectedText = SelectedAt(i)
            /\ requests[i].source = ExpectedSource(i)
            /\ Record(i).url = location.href
            /\ Record(i).domain = location.hostname
            /\ SelectedAt(i) # <<>> =>
                  /\ Record(i).content = SelectedAt(i)
                  /\ Record(i).contentLength = Len(SelectedAt(i))
            /\ SelectedAt(i) = <<>> =>
                  \A j \in Extractions :
                      (Succeeded(j) /\ SelectedAt(j) = <<>>) => Record(j) = Record(i)

\* two requests with a selection change between them, each answered with its
\* own selection
C13_Witness ==
    \E i, j \in Extractions :
        /\ i < j
        /\ Succeeded(i) /\ Succeeded(j)
        /\ SelectedAt(i) # <<>> /\ SelectedAt(j) # <<>>
        /\ SelectedAt(i) # SelectedAt(j)
        /\ Record(i).content = SelectedAt(i)
        /\ Record(j).content = SelectedAt(j)

\* a string of white space only (the empty string included)
AllBlank(s) == \A k \in 1..Len(s) : s[k] \in WhiteSpace

\* C14: in every record hasSelection is true exactly when selectedText is
\* not empty, and that is exactly when the selection holds a character that
\* is not white space; selectedText has no white space at either end, and the
\* SELECTION branch is taken exactly when hasSelection is true.
C14_HasSelectionIffText ==
    \A i \in Extractions :
        Succeeded(i) =>
            LET text == Record(i).selectedText
            IN  /\ Record(i).hasSelection = (text # <<>>)
                /\ Record(i).hasSelection = ~AllBlank(requests[i].selection)
                /\ text # <<>> => /\ text[1] \notin WhiteSpace
                                  /\ text[Len(text)] \notin WhiteSpace
                /\ (requests[i].source = "SELECTION") = Record(i).hasSelection

\* a selection of white space only, answered with hasSelection = false from
\* another branch
C14_Witness ==
    \E i \in Extractions :
        /\ requests[i].selection # <<>>
        /\ AllBlank(requests[i].selection)
        /\ Succeeded(i)
        /\ ~Record(i).hasSelection
        /\ Record(i).selectedText = <<>>
        /\ requests[i].source # "SELECTION"

\* the contents of the meta tags of a priority list, in the list's order
TagValues(chain) == [k \in 1..Len(chain) |-> TagValue(chain[k])]

\* C15: description, author, publishedDate, image and title as the metadata
\* reader gives them are the first non-empty value in the priority list of
\* the field, and the empty string when the list has none; a tag that is
\* there with an empty content does not hide a later one.  The record carries
\* the reader's description, date and image as they are.
C15_FirstNonEmptySource ==
    /\ getMetaDescription =
          FirstNonEmpty(TagValues(<<"og:description", "description", "twitter:description">>))
    /\ getMetaAuthor =
          FirstNonEmpty(TagValues(<<"author", "article:author", "og:article:author">>))
    /\ getMetaDate =
          FirstNonEmpty(TagValues(<<"article:published_time", "date", "pubdate">>))
    /\ getMetaImage = FirstNonEmpty(TagValues(<<"og:image", "twitter:image">>))
    /\ getPageTitle =
          FirstNonEmpty(TagValues(<<"og:title", "twitter:title">>) \o <<document.title>>)
    /\ \A i \in Extractions :
          Succeeded(i) =>
              /\ Record(i).description = getMetaDescription
              /\ Record(i).publishedDate = getMetaDate
              /\ Record(i).ogImage = getMetaImage

\* a request answered on a page whose first author tag is there but empty
\* and whose second one is not: the record carries the second one
C15_Witness ==
    /\ document.meta["author"] = <<>>
    /\ document.meta["article:author"] # NoTag
    /\ TagValue("article:author") # <<>>
    /\ \E i \in Extractions :
          /\ Succeeded(i)
          /\ Record(i).author = TagValue("article:author")

\* the positions of the commas of s
Commas(s) == {k \in 1..Len(s) : s[k] = ","}

\* the position of the n-th comma of s; 0 for n = 0 and Len(s) + 1 past the last
NthComma(s, n) ==
    IF n = 0 THEN 0
    ELSE IF n > Cardinality(Commas(s)) THEN Len(s) + 1
    ELSE CHOOSE c \in Commas(s) : Cardinality({d \in Commas(s) : d < c}) = n - 1

\* s from its first to its last character that is not white space
Stripped(s) ==
    LET inked == {k \in 1..Len(s) : s[k] \notin WhiteSpace}
    IN  IF inked = {} THEN <<>>
        ELSE SubSeq(s, CHOOSE a \in inked : \A k \in inked : a <= k,
                       CHOOSE b \in inked : \A k \in inked : k <= b)

\* C16: keywords is the empty sequence when the keywords tag is absent or its
\* content is empty; otherwise it has one token for each stretch between
\* commas, in the order of the content, and each token is the stretch
\* without the white space around it.  The record carries that sequence.
C16_KeywordsSplitTrimmed ==
    LET content == TagValue("keywords")
    IN  /\ content = <<>> => getMetaKeywords = <<>>
        /\ content # <<>> =>
              /\ Len(getMetaKeywords) = Cardinality(Commas(content)) + 1
              /\ \A n \in 1..Len(getMetaKeywords) :
                    getMetaKeywords[n] =
                        Stripped(SubSeq(content, NthComma(content, n - 1) + 1,
                                                 NthComma(content, n) - 1))
        /\ \A i \in Extractions : Succeeded(i) => Record(i).keywords = getMetaKeywords

\* "a, b , c" answered as the three tokens a, b and c
C16_Witness ==
    /\ document.meta["keywords"] = <<"a", ",", " ", "b", " ", ",", "c">>
    /\ \E i \in Extractions :
          /\ Succeeded(i)
          /\ Record(i).keywords = << <<"a">>, <<"b">>, <<"c">> >>

\* the icon links the document has, by their place in the order icon,
\* shortcut icon, apple-touch-icon
IconsFound == {i \in 1..Len(IconRels) : document.links[IconRels[i]] # NoLink}

\* the href of the first icon link of the document
FirstIconHref ==
    document.links[IconRels[CHOOSE i \in IconsFound : \A j \in IconsFound : i <= j]]

\* the favicon of a site that names none
OriginFavicon ==
    location.origin \o <<"/", "f", "a", "v", "i", "c", "o", "n", ".", "i", "c", "o">>

\* C17 as stated: favicon is the URL of the first icon link there is, and the
\* origin's /favicon.ico only when the document has no icon link.
C17_FaviconFirstLink ==
    /\ IconsFound # {} => getFaviconUrl = FirstIconHref
    /\ IconsFound = {} => getFaviconUrl = OriginFavicon
    /\ \A i \in Extractions : Succeeded(i) => Record(i).favicon = getFaviconUrl

\* C17: favicon is the href of the first icon link there is when that href
\* is not empty; it is the origin's /favicon.ico when the document has no
\* icon link and also when the first one has no href, whatever links follow.
C17_FaviconFirstLinkWithHref ==
    /\ (IconsFound # {} /\ FirstIconHref # <<>>) => getFaviconUrl = FirstIconHref
    /\ (IconsFound = {} \/ FirstIconHref = <<>>) => getFaviconUrl = OriginFavicon
    /\ \A i \in Extractions : Succeeded(i) => Record(i).favicon = getFaviconUrl

\* an icon link without href before a shortcut icon link with one, answered
\* with the origin's /favicon.ico
C17_Witness ==
    /\ document.links["icon"] = <<>>
    /\ document.links["shortcut icon"] = <<"s">>
    /\ \E i \in Extractions :
          /\ Succeeded(i)
          /\ Record(i).favicon = OriginFavicon

\* the containers the document has, by their place in selectors
ContainersFound == {k \in 1..Len(selectors) : document.elements[selectors[k]].exists}

\* the rendered text of the first container of the document, or of its body
\* when it has no container
FirstContainerText ==
    IF ContainersFound # {}
    THEN document.elements[selectors[
             CHOOSE k \in ContainersFound : \A l \in ContainersFound : k <= l]].innerText
    ELSE document.body.innerText

\* C18: a request that reaches the fallback extractor (its notification was
\* sent) is answered with a record, the extractor having returned a string,
\* and the content is the rendered text of the first container there is in
\* the order of selectors, or of the body when there is none.
C18_FallbackFirstContainer ==
    \A i \in Extractions :
        (requests[i].source = "FALLBACK" /\ requests[i].sent = 1) =>
            /\ Succeeded(i)
            /\ Record(i).content = FirstContainerText

\* C19: when the clone, the Readability parse or the markdown conversion
\* throws and the selection is empty, the extractor gives null, the request
\* takes the FALLBACK branch and is answered with success: true.
C19_ExtractorThrowRecovered ==
    \A i \in Extractions :
        (parsed.throws # "none" /\ SelectedAt(i) = <<>>) =>
            /\ extractMainContent.isNull
            /\ requests[i].source = "FALLBACK"
            /\ Succeeded(i)

\* C20: a request with an empty selection, no usable article and a page
\* without rendered body text is answered with a record whose content is
\* empty and whose contentLength is 0; its excerpt is the description of the
\* page, empty when the page has none.
C20_EmptyPageIsSuccess ==
    \A i \in Extractions :
        (/\ SelectedAt(i) = <<>>
         /\ ExpectedSource(i) = "FALLBACK"
         /\ document.body.innerText = <<>>) =>
            /\ Succeeded(i)
            /\ Record(i).content = <<>>
            /\ Record(i).contentLength = 0
            /\ Record(i).excerpt =
                  FirstNonEmpty(TagValues(<<"og:description", "description",
                                            "twitter:description">>))

\* C21: a step that handles an extraction request leaves the document and
\* the selection as they were, whether the extractor returned or threw.
C21_LivePageUnchanged ==
    [][requests' # requests => (document' = document /\ selection' = selection)]_vars

\* a request handled on a page with script elements whose extractor threw,
\* and the script elements and their text are still in the document
C21_Witness ==
    /\ Extractions # {}
    /\ parsed.throws = "parse"
    /\ document.scripts = 1
    /\ \E i \in Extractions : Succeeded(i) /\ requests[i].source = "FALLBACK"

\* the metadata author of the page
MetaAuthor ==
    FirstNonEmpty(TagValues(<<"author", "article:author", "og:article:author">>))

\* C23 as stated: with a selection that is not empty the extractor is not
\* run, so author and siteName of the record owe nothing to it: author is
\* the metadata author and siteName the host name.
C23_SelectionSkipsExtractor ==
    \A i \in Extractions :
        (Succeeded(i) /\ SelectedAt(i) # <<>>) =>
            /\ requests[i].source = "SELECTION"
            /\ Record(i).author = MetaAuthor
            /\ Record(i).siteName = location.hostname

\* C23: the branch is chosen in the order SELECTION, STRUCTURED, FALLBACK,
\* and with a selection that is not empty content, contentLength and title
\* owe nothing to the extractor; the extractor is run all the same, and
\* author is its byline when the metadata has no author, siteName its
\* siteName whenever it returned an article.
C23_SelectionKeepsExtractorMeta ==
    \A i \in Extractions :
        Succeeded(i) =>
            /\ requests[i].source = ExpectedSource(i)
            /\ SelectedAt(i) # <<>> =>
                  /\ Record(i).content = SelectedAt(i)
                  /\ Record(i).contentLength = Len(SelectedAt(i))
                  /\ Record(i).title = MetaTitle
                  /\ Record(i).author =
                        IF MetaAuthor # <<>> \/ parsed.throws # "none" \/ parsed.article.isNull
                           \/ parsed.article.byline = Null
                        THEN MetaAuthor
                        ELSE parsed.article.byline
                  /\ Record(i).siteName =
                        IF parsed.throws # "none" \/ parsed.article.isNull
                        THEN location.hostname
                        ELSE IF parsed.article.siteName = Null THEN <<>>
                        ELSE parsed.article.siteName

\* a request with a selection answered with the selection as content and the
\* extractor's byline and siteName as author and siteName
C23_Witness ==
    \E i \in Extractions :
        /\ Succeeded(i)
        /\ requests[i].source = "SELECTION"
        /\ MetaAuthor = <<>>
        /\ parsed.article.byline \notin {Null, <<>>}
        /\ parsed.article.siteName \notin {Null, <<>>}
        /\ Record(i).author = parsed.article.byline
        /\ Record(i).siteName = parsed.article.siteName
        /\ Record(i).content = SelectedAt(i)

----------------------------------------------------------------------------
(* The save form of the popup and saveKnowledge, updateKnowledge of the
   background worker *)

\* background.js lines 9-12
SCREENSHOT_INITIAL_QUALITY == 60

SCREENSHOT_MIN_QUALITY == 20

SCREENSHOT_QUALITY_DECREMENT == 10

SCREENSHOT_MAX_SIZE_BYTES == 1048576

\* submits of the save form in one behaviour
MaxSubmits == 2

\* no data URL: the null of screenshotDataUrl, and screenshotResult before
\* the first capture
NoShot == -1

\* what chrome.tabs.captureVisibleTab may do: resolve with a data URL of
\* some length, or reject
CaptureOutcomes ==
    { [throws |-> FALSE, length |-> n] :
        n \in {0, SCREENSHOT_MAX_SIZE_BYTES, SCREENSHOT_MAX_SIZE_BYTES + 1} }
    \cup { [throws |-> TRUE, length |-> 0] }

\* what the HTTP call may do: 2xx with a body {data: {id, ...}}, 2xx with a
\* body without data, 2xx with the body null, 2xx with a body that is not
\* JSON, a status that is not ok, the abort after 30 s before or after the
\* server has handled the request, and a network error
HttpOutcomes ==
    {"ok", "okNoData", "okNull", "okUnparsable", "status", "timeout",
     "timeoutHandled", "network"}

\* the server has handled the request
Handled(outcome) ==
    outcome \in {"ok", "okNoData", "okNull", "okUnparsable", "timeoutHandled"}

\* the frame of a call of saveKnowledge or updateKnowledge: the message, the
\* locals, the captureVisibleTab calls so far, the payload sent, whether the
\* server handled the request, and the value the promise resolved to
NewCall(action, documentId, captureScreenshot, tabId) ==
    [action            |-> action,
     documentId        |-> documentId,
     captureScreenshot |-> captureScreenshot,
     tabId             |-> tabId,
     pc                |-> IF action = "saveKnowledge" THEN "capture" ELSE "request",
     quality           |-> 0,
     screenshotResult  |-> NoShot,
     screenshotDataUrl |-> NoShot,
     captured          |-> <<>>,
     sent              |-> FALSE,
     screenshotField   |-> FALSE,
     outcome           |-> "none",
     handled           |-> FALSE,
     notified          |-> FALSE,
     rejected          |-> FALSE,
     success           |-> FALSE,
     dataId            |-> 0]

\* the call the background is working on or the popup is waiting for
Active == {k \in 1..Len(saveCalls) : saveCalls[k].pc # "done"}

\* screenshot.js lines 428-499: the save form is submitted.  The handler
\* returns early without page data and document id, and without title; the
\* button is disabled while a call is under way.  sendFails: sendMessage
\* rejects, the catch block shows the error.
SubmitSave(title, captureScreenshot, tabId, sendFails) ==
    /\ Len(saveCalls) < MaxSubmits
    /\ Active = {}
    /\ IF (~currentPageData /\ currentDocumentId = 0) \/ title = <<>> \/ sendFails
       THEN UNCHANGED saveCalls
       ELSE saveCalls' = Append(saveCalls,
                NewCall(IF currentDocumentId # 0 THEN "updateKnowledge"
                        ELSE "saveKnowledge",
                        currentDocumentId, captureScreenshot, tabId))
    /\ UNCHANGED <<currentPageData, currentDocumentId, created>>
    /\ UNCHANGED contentVars
    /\ UNCHANGED configVars

\* a frame after a call of captureVisibleTab with this quality
AfterCapture(call, quality, outcome) ==
    IF outcome.throws
    THEN [call EXCEPT !.pc = "request", !.quality = quality,
                      !.captured = Append(call.captured,
                                          [quality |-> quality, size |-> NoShot])]
    ELSE [call EXCEPT !.pc = "loop", !.quality = quality,
                      !.screenshotResult = outcome.length,
                      !.captured = Append(call.captured,
                                          [quality |-> quality, size |-> outcome.length])]

\* mutant of retryNeeded: the retries stop at quality 0
retryNeededAboveZero(size, quality) ==
    size > SCREENSHOT_MAX_SIZE_BYTES /\ quality > 0

\* background.js line 113: the test of the while loop
retryNeeded(size, quality) ==
    size > SCREENSHOT_MAX_SIZE_BYTES /\ quality > SCREENSHOT_MIN_QUALITY

\* mutant of keptScreenshot: the last capture is kept whatever its size
keptScreenshotAnySize(size) == size

\* background.js lines 123-127: the data URL kept for the payload
keptScreenshot(size) ==
    IF size <= SCREENSHOT_MAX_SIZE_BYTES THEN size ELSE NoShot

\* background.js lines 102-110, 128-131: saveKnowledge starts; with
\* data.captureScreenshot and data.tabId it captures at the initial quality
CaptureFirst(k, outcome) ==
    /\ k \in Active
    /\ saveCalls[k].pc = "capture"
    /\ saveCalls' = [saveCalls EXCEPT ![k] =
          IF saveCalls[k].captureScreenshot /\ saveCalls[k].tabId # 0
          THEN AfterCapture(saveCalls[k], SCREENSHOT_INITIAL_QUALITY, outcome)
          ELSE [saveCalls[k] EXCEPT !.pc = "request"]]
    /\ UNCHANGED <<currentPageData, currentDocumentId, created>>
    /\ UNCHANGED contentVars
    /\ UNCHANGED configVars

\* background.js lines 113-131: the test of the loop, then either a capture
\* at a lower quality or the choice of lines 123-127
CaptureLoop(k, outcome) ==
    /\ k \in Active
    /\ saveCalls[k].pc = "loop"
    /\ saveCalls' = [saveCalls EXCEPT ![k] =
          IF retryNeeded(saveCalls[k].screenshotResult, saveCalls[k].quality)
          THEN AfterCapture(saveCalls[k],
                            saveCalls[k].quality - SCREENSHOT_QUALITY_DECREMENT,
                            outcome)
          ELSE [saveCalls[k] EXCEPT
                   !.pc = "request",
                   !.screenshotDataUrl = keptScreenshot(saveCalls[k].screenshotResult)]]
    /\ UNCHANGED <<currentPageData, currentDocumentId, created>>
    /\ UNCHANGED contentVars
    /\ UNCHANGED configVars

\* background.js lines 194-227 (saveKnowledge) and 271-304 (updateKnowledge),
\* with fetchWithTimeout, lines 18-36: what the promise resolves to.
\* A status that is not ok returns success: false.  A fetch that throws and
\* a body that is not JSON end in the catch block.  Otherwise the
\* notification is shown and then responseData.data is read, which throws
\* into the catch block when the body is null.  dataId is 0 when there is
\* no data.id.
resolved(outcome, id) ==
    CASE outcome \in {"status", "timeout", "timeoutHandled", "network", "okUnparsable"} ->
           [notified |-> FALSE, rejected |-> FALSE, success |-> FALSE, dataId |-> 0]
      [] outcome = "okNull" ->
           [notified |-> TRUE, rejected |-> FALSE, success |-> FALSE, dataId |-> 0]
      [] outcome = "okNoData" ->
           [notified |-> TRUE, rejected |-> FALSE, success |-> TRUE, dataId |-> 0]
      [] outcome = "ok" ->
           [notified |-> TRUE, rejected |-> FALSE, success |-> TRUE, dataId |-> id]

\* a frame once the promise of the call has resolved
Resolve(call, outcome, id) ==
    [call EXCEPT !.pc = "resolved",
                 !.sent = TRUE,
                 !.outcome = outcome,
                 !.handled = Handled(outcome),
                 !.notified = resolved(outcome, id).notified,
                 !.rejected = resolved(outcome, id).rejected,
                 !.success = resolved(outcome, id).success,
                 !.dataId = resolved(outcome, id).dataId]

\* background.js lines 134-227: saveKnowledge builds the payload, with the
\* screenshot when screenshotDataUrl is truthy, and POSTs it; a server that
\* handles the request creates a document
PostKnowledge(k, outcome) ==
    /\ k \in Active
    /\ saveCalls[k].pc = "request"
    /\ saveCalls[k].action = "saveKnowledge"
    /\ created' = IF Handled(outcome) THEN created + 1 ELSE created
    /\ saveCalls' = [saveCalls EXCEPT ![k] =
          [Resolve(saveCalls[k], outcome, created + 2) EXCEPT
              !.screenshotField = saveCalls[k].screenshotDataUrl > 0]]
    /\ UNCHANGED <<currentPageData, currentDocumentId>>
    /\ UNCHANGED contentVars
    /\ UNCHANGED configVars

\* background.js lines 233-305: updateKnowledge PUTs the payload to the
\* document; the answer carries the document
PutKnowledge(k, outcome) ==
    /\ k \in Active
    /\ saveCalls[k].pc = "request"
    /\ saveCalls[k].action = "updateKnowledge"
    /\ saveCalls' = [saveCalls EXCEPT ![k] =
          Resolve(saveCalls[k], outcome, saveCalls[k].documentId)]
    /\ UNCHANGED <<currentPageData, currentDocumentId, created>>
    /\ UNCHANGED contentVars
    /\ UNCHANGED configVars

\* the frame of a call that has returned: its locals and the form data are
\* gone; the action, the document id, the server's part and the result remain
Returned(call) ==
    [NewCall(call.action, call.documentId, FALSE, 0) EXCEPT
        !.pc = "done", !.sent = call.sent, !.handled = call.handled,
        !.notified = call.notified, !.rejected = call.rejected,
        !.success = call.success, !.dataId = call.dataId]

\* screenshot.js lines 501-526: the popup gets the result.  On success it
\* reads result.data.id, which throws into the catch block when the result
\* has no data.
ReceiveResult(k) ==
    /\ k \in Active
    /\ saveCalls[k].pc = "resolved"
    /\ saveCalls' = [saveCalls EXCEPT ![k] = Returned(saveCalls[k])]
    /\ currentDocumentId' =
          IF saveCalls[k].success /\ saveCalls[k].dataId # 0
          THEN saveCalls[k].dataId
          ELSE currentDocumentId
    /\ UNCHANGED <<currentPageData, created>>
    /\ UNCHANGED contentVars
    /\ UNCHANGED configVars

\* the popup has opened on a configured extension: showSaveScreen
\* (screenshot.js lines 245-290) has set currentPageData when the extraction
\* succeeded and currentDocumentId when the page is already saved (id 1).
\* The page of the tab is left alone from here on.
SaveInit ==
    /\ document = DescribedDocument
    /\ parsed = [throws |-> "none", article |-> NullArticle]
    /\ location = PageLocation
    /\ selection = <<>>
    /\ requests = <<>>
    /\ channel = 0
    /\ currentPageData \in BOOLEAN
    /\ currentDocumentId \in {0, 1}
    /\ saveCalls = <<>>
    /\ created = 0
    /\ storage = [apiUrl |-> <<"u">>, apiToken |-> <<"k">>]
    /\ ConfigFormClosed

SaveNext ==
    \/ \E title \in {<<>>, <<"T">>}, captureScreenshot \in BOOLEAN, tabId \in {0, 1},
          sendFails \in BOOLEAN :
          SubmitSave(title, captureScreenshot, tabId, sendFails)
    \/ \E k \in 1..MaxSubmits, outcome \in CaptureOutcomes : CaptureFirst(k, outcome)
    \/ \E k \in 1..MaxSubmits, outcome \in CaptureOutcomes : CaptureLoop(k, outcome)
    \/ \E k \in 1..MaxSubmits, outcome \in HttpOutcomes : PostKnowledge(k, outcome)
    \/ \E k \in 1..MaxSubmits, outcome \in HttpOutcomes : PutKnowledge(k, outcome)
    \/ \E k \in 1..MaxSubmits : ReceiveResult(k)

\* the steps of a call that has begun: captureVisibleTab settles, the fetch
\* settles or is aborted after 30 s, and the popup is handed the result
SaveStep ==
    \E k \in 1..MaxSubmits :
        \/ \E outcome \in CaptureOutcomes : CaptureFirst(k, outcome) \/ CaptureLoop(k, outcome)
        \/ \E outcome \in HttpOutcomes : PostKnowledge(k, outcome) \/ PutKnowledge(k, outcome)
        \/ ReceiveResult(k)

SaveSpec == SaveInit /\ [][SaveNext]_vars /\ WF_vars(SaveStep)

----------------------------------------------------------------------------
(* Properties of the save form and the background worker *)

\* the calls of saveKnowledge that are in their screenshot part
Capturing(k) ==
    k \in 1..Len(saveCalls) /\ saveCalls[k].pc \in {"capture", "loop"}

\* C24: in every call of saveKnowledge the first capture has quality 60,
\* each further one has 10 less than the one before and is made only after a
\* capture of more than 1 MB at a quality above 20, so the qualities are
\* among 60, 50, 40, 30, 20 and there are at most 5 captures; and the
\* screenshot part of every call comes to an end.
C24_QualityLoopTerminates ==
    /\ [](\A k \in 1..Len(saveCalls) :
            LET captured == saveCalls[k].captured
            IN  /\ Len(captured) <= 5
                /\ \A n \in 1..Len(captured) :
                      /\ captured[n].quality \in {60, 50, 40, 30, 20}
                      /\ n = 1 => captured[n].quality = 60
                      /\ n > 1 => /\ captured[n].quality = captured[n - 1].quality - 10
                                  /\ captured[n - 1].size > 1024 * 1024
                                  /\ captured[n - 1].quality > 20)
    /\ \A k \in 1..MaxSubmits : Capturing(k) ~> ~Capturing(k)

\* a call that captured five times, down to quality 20, and went on without
\* a screenshot because the last capture was still over 1 MB
C24_Witness ==
    \E k \in 1..Len(saveCalls) :
        /\ Len(saveCalls[k].captured) = 5
        /\ saveCalls[k].captured[5].quality = 20
        /\ saveCalls[k].captured[5].size > 1024 * 1024
        /\ saveCalls[k].pc = "request"
        /\ saveCalls[k].screenshotDataUrl = NoShot

\* the calls of saveKnowledge whose promise has resolved and whose frame
\* still holds the locals
ResolvedSaves ==
    {k \in 1..Len(saveCalls) : /\ saveCalls[k].action = "saveKnowledge"
                               /\ saveCalls[k].pc = "resolved"}

\* the length of the last data URL captureVisibleTab gave the call, NoShot
\* when there was no capture or the last one rejected
LastCaptured(k) ==
    IF saveCalls[k].captured = <<>> THEN NoShot
    ELSE saveCalls[k].captured[Len(saveCalls[k].captured)].size

\* C25: every call of saveKnowledge sends its POST.  The payload has a
\* screenshot only if a screenshot was asked for and the last capture gave a
\* data URL of at most 1 MB; it has none when no screenshot was asked for,
\* when the capture rejected and when the last capture was over 1 MB.
C25_ScreenshotOnlyWithinLimit ==
    \A k \in ResolvedSaves :
        /\ saveCalls[k].sent
        /\ saveCalls[k].screenshotField =>
              /\ saveCalls[k].captureScreenshot
              /\ LastCaptured(k) # NoShot
              /\ LastCaptured(k) <= 1024 * 1024
        /\ (\/ ~saveCalls[k].captureScreenshot
            \/ LastCaptured(k) = NoShot
            \/ LastCaptured(k) > 1024 * 1024) => ~saveCalls[k].screenshotField

\* a call that asked for a screenshot, captured five times, each time over
\* 1 MB, and sent its POST without screenshot
C25_Witness ==
    \E k \in ResolvedSaves :
        /\ saveCalls[k].sent
        /\ saveCalls[k].captureScreenshot
        /\ Len(saveCalls[k].captured) = 5
        /\ LastCaptured(k) > 1024 * 1024
        /\ ~saveCalls[k].screenshotField

\* the calls whose promise has settled
Settled == {k \in 1..Len(saveCalls) : saveCalls[k].pc \in {"resolved", "done"}}

\* C26: whatever the HTTP call does, the promise of saveKnowledge and of
\* updateKnowledge does not reject, and the success notification is shown
\* only by calls that resolve to success: true.
C26_NeverRejectsNotifiesOnSuccess ==
    \A k \in Settled :
        /\ ~saveCalls[k].rejected
        /\ saveCalls[k].notified => saveCalls[k].success

\* C27: a submit sends saveKnowledge only while the popup knows no document
\* id, and updateKnowledge with the id it knows otherwise; once the API has
\* created the document of a saveKnowledge, every later submit is an
\* updateKnowledge of that document, and the session creates at most one
\* document.
C27_OneCreatePerSession ==
    /\ \A k \in 1..Len(saveCalls) :
          (saveCalls[k].action = "saveKnowledge") = (saveCalls[k].documentId = 0)
    /\ \A j, k \in 1..Len(saveCalls) :
          (j < k /\ saveCalls[j].action = "saveKnowledge" /\ saveCalls[j].handled) =>
              /\ saveCalls[k].action = "updateKnowledge"
              /\ saveCalls[j].dataId # 0 => saveCalls[k].documentId = saveCalls[j].dataId
    /\ created <= 1

(***************************************************************************)
(* The configuration form of the popup (src/screenshot.js lines 181-213,   *)
(* 357-409, 532-550), chrome.storage.sync (src/storage.js) and the         *)
(* background worker's validateToken (src/background.js lines 70-94)       *)
(***************************************************************************)

\* the keys the user presses in the api-token input before emptying it
MaxTyped == 1

\* a token longer than the eight characters the mask shows
LongToken == <<"s", "e", "c", "r", "e", "t", "4", "2", "x", "y">>

\* what chrome.storage.sync holds when the popup opens
StoredConfigs ==
    { DefaultConfig,
      [apiUrl |-> <<"u">>, apiToken |-> LongToken],
      [apiUrl |-> <<"u">>, apiToken |-> <<"k">>] }

\* src/storage.js isConfigured: !!(apiUrl && apiToken)
isConfigured(config) == Truthy(config.apiUrl) /\ Truthy(config.apiToken)

\* String.prototype.slice(-8): the last eight characters, all when fewer
SliceLast8(s) == IF Len(s) <= 8 THEN s ELSE SubSeq(s, Len(s) - 7, Len(s))

\* screenshot.js line 201: sixteen bullets (written "*" here) and the last
\* eight characters of the token
maskedToken(apiToken) == [i \in 1..16 |-> "*"] \o SliceLast8(apiToken)

\* what the user may type into the api-url input
TypedUrls == { <<>>, <<"u">>, <<" ", "v">> }

\* the keys the user may press in the api-token input
TypedKeys == { "n", " " }

\* how the GET /api/user of validateToken may end; "lost" is a message the
\* background worker never answers (sendMessage rejects)
ValidationOutcomes == { "ok", "unauthorized", "unparsable", "network", "timeout", "lost" }

\* background.js lines 70-94: valid only for an ok status with a JSON body
validateToken(outcome) == outcome = "ok"

\* showSaveScreen, lines 245-290: ends on the save screen whatever the
\* extraction gave; currentPageData and currentDocumentId as the extraction
\* and the lookup of the existing document left them
showSaveScreen(extracted, existing) ==
    /\ screen' = [screen EXCEPT !.shown = "save"]
    /\ apiTokenField' = [apiTokenField EXCEPT !.focused = FALSE]
    /\ currentPageData' = (extracted \/ currentPageData)
    /\ currentDocumentId' = IF extracted /\ existing # 0 THEN existing
                            ELSE currentDocumentId
    /\ UNCHANGED <<saveCalls, created>>

\* handleSettings, lines 532-536, and showConfigScreen up to its await,
\* lines 182-195: the configuration screen replaces the save screen
OpenConfig ==
    /\ screen.shown = "save"
    /\ ~screen.loading
    /\ screen' = [shown |-> "config", loading |-> TRUE, back |-> TRUE]
    /\ apiTokenField' = [apiTokenField EXCEPT !.focused = FALSE, !.touched = FALSE]
    /\ UNCHANGED <<storage, apiUrlField, focusListeners, validation>>
    /\ UNCHANGED contentVars
    /\ UNCHANGED saveVars

\* the api-token input once the stored configuration is read, lines 199-204
maskedField(field, config) ==
    IF Truthy(config.apiToken)
    THEN [field EXCEPT !.value = maskedToken(config.apiToken), !.masked = TRUE,
                       !.typed = <<>>]
    ELSE field

\* showConfigScreen after its await, lines 195-212: the fields are filled
\* from the stored configuration and one more focus listener is added
LoadConfig ==
    /\ screen.loading
    /\ screen' = [screen EXCEPT !.loading = FALSE]
    /\ apiUrlField' = IF Truthy(storage.apiUrl) THEN storage.apiUrl ELSE apiUrlField
    /\ apiTokenField' = maskedField(apiTokenField, storage)
    /\ focusListeners' = TRUE
    /\ UNCHANGED <<storage, validation>>
    /\ UNCHANGED contentVars
    /\ UNCHANGED saveVars

\* the focus listeners, lines 207-212: the first one that runs on a masked
\* field empties it and removes data-masked; each runs once, all of them at
\* the first focus event after they were added
FocusToken ==
    /\ screen.shown = "config"
    /\ ~apiTokenField.focused
    /\ apiTokenField' =
          IF focusListeners /\ apiTokenField.masked
          THEN [value |-> <<>>, masked |-> FALSE, focused |-> TRUE,
                touched |-> TRUE, typed |-> <<>>]
          ELSE [apiTokenField EXCEPT !.focused = TRUE, !.touched = TRUE]
    /\ focusListeners' = FALSE
    /\ UNCHANGED <<storage, screen, apiUrlField, validation>>
    /\ UNCHANGED contentVars
    /\ UNCHANGED saveVars

\* the user leaves the api-token input
BlurToken ==
    /\ apiTokenField.focused
    /\ apiTokenField' = [apiTokenField EXCEPT !.focused = FALSE]
    /\ UNCHANGED <<storage, screen, apiUrlField, focusListeners, validation>>
    /\ UNCHANGED contentVars
    /\ UNCHANGED saveVars

\* the user presses a key in the api-token input, which has the focus
TypeToken(key) ==
    /\ screen.shown = "config"
    /\ apiTokenField.focused
    /\ Len(apiTokenField.typed) < MaxTyped
    /\ apiTokenField' = [apiTokenField EXCEPT !.value = Append(@, key),
                                              !.typed = Append(@, key)]
    /\ UNCHANGED <<storage, screen, apiUrlField, focusListeners, validation>>
    /\ UNCHANGED contentVars
    /\ UNCHANGED saveVars

\* the user replaces the content of the api-url input
TypeUrl(url) ==
    /\ screen.shown = "config"
    /\ apiUrlField # url
    /\ apiUrlField' = url
    /\ apiTokenField' = [apiTokenField EXCEPT !.focused = FALSE]
    /\ UNCHANGED <<storage, screen, focusListeners, validation>>
    /\ UNCHANGED contentVars
    /\ UNCHANGED saveVars

\* handleConfigSubmit lines 361-367: the token the submit goes on with
submittedToken(field, config) ==
    IF field.masked THEN config.apiToken ELSE Trim(field.value)

\* handleConfigSubmit up to its sendMessage, lines 357-389
SubmitConfig ==
    /\ screen.shown = "config"
    /\ validation.pc = "none"
    /\ ~validation.disabled
    /\ LET apiUrl   == Trim(apiUrlField)
           apiToken == submittedToken(apiTokenField, storage)
       IN  IF ~Truthy(apiUrl) \/ ~Truthy(apiToken)
           THEN /\ validation' = [NoValidation EXCEPT !.error = "Please fill in all fields"]
           ELSE /\ validation' = [pc |-> "sent", apiUrl |-> apiUrl, apiToken |-> apiToken,
                                  valid |-> FALSE, error |-> "", disabled |-> TRUE,
                                  field |-> apiTokenField, stored |-> storage.apiToken]
    /\ UNCHANGED <<storage, screen, apiUrlField, apiTokenField, focusListeners>>
    /\ UNCHANGED contentVars
    /\ UNCHANGED saveVars

\* the background worker answers the validateToken message, background.js
\* lines 44-46 and 70-94, or the message is lost
ValidateToken(outcome) ==
    /\ validation.pc = "sent"
    /\ validation' = [validation EXCEPT !.pc = IF outcome = "lost" THEN "failed" ELSE "answered",
                                        !.valid = validateToken(outcome)]
    /\ UNCHANGED <<storage, screen, apiUrlField, apiTokenField, focusListeners>>
    /\ UNCHANGED contentVars
    /\ UNCHANGED saveVars

savesConfigAnyAnswer(call) == call.pc = "answered"

\* handleConfigSubmit line 391: the answers the configuration is saved for
savesConfig(call) == call.pc = "answered" /\ call.valid

\* handleConfigSubmit after its sendMessage, lines 391-408
ConfigAnswered(extracted, existing) ==
    /\ validation.pc \in {"answered", "failed"}
    /\ IF savesConfig(validation)
       THEN /\ storage' = [apiUrl |-> validation.apiUrl, apiToken |-> validation.apiToken]
            /\ showSaveScreen(extracted, existing)
            /\ validation' = [NoValidation EXCEPT !.disabled = TRUE]
       ELSE /\ validation' =
                  [NoValidation EXCEPT !.error =
                      IF validation.pc = "failed"
                      THEN "Failed to validate configuration"
                      ELSE "Invalid token or connection failed"]
            /\ UNCHANGED <<storage, screen, apiTokenField>>
            /\ UNCHANGED saveVars
    /\ UNCHANGED <<apiUrlField, focusListeners>>
    /\ UNCHANGED contentVars

\* handleBackToSave, lines 541-550
BackToSave(extracted, existing) ==
    /\ screen.shown = "config"
    /\ screen.back
    /\ IF isConfigured(storage)
       THEN showSaveScreen(extracted, existing)
       ELSE /\ screen' = [screen EXCEPT !.back = FALSE]
            /\ UNCHANGED apiTokenField
            /\ UNCHANGED saveVars
    /\ UNCHANGED <<storage, apiUrlField, focusListeners, validation>>
    /\ UNCHANGED contentVars

\* DOMContentLoaded, lines 136-154: a configured popup opens on the save
\* screen, any other one has called showConfigScreen(), which waits for the
\* stored configuration.  The page of the tab is left alone from here on.
ConfigInit ==
    /\ document = DescribedDocument
    /\ parsed = [throws |-> "none", article |-> NullArticle]
    /\ location = PageLocation
    /\ selection = <<>>
    /\ requests = <<>>
    /\ channel = 0
    /\ currentPageData \in BOOLEAN
    /\ currentDocumentId = 0
    /\ saveCalls = <<>>
    /\ created = 0
    /\ storage \in StoredConfigs
    /\ screen = IF isConfigured(storage) THEN SaveScreen
                ELSE [shown |-> "config", loading |-> TRUE, back |-> FALSE]
    /\ apiUrlField = <<>>
    /\ apiTokenField = UntouchedField
    /\ focusListeners = FALSE
    /\ validation = NoValidation

ConfigNext ==
    \/ OpenConfig
    \/ LoadConfig
    \/ FocusToken
    \/ BlurToken
    \/ \E key \in TypedKeys : TypeToken(key)
    \/ \E url \in TypedUrls : TypeUrl(url)
    \/ SubmitConfig
    \/ \E outcome \in ValidationOutcomes : ValidateToken(outcome)
    \/ \E extracted \in BOOLEAN, existing \in {0, 1} : ConfigAnswered(extracted, existing)
    \/ \E extracted \in BOOLEAN, existing \in {0, 1} : BackToSave(extracted, existing)

ConfigSpec == ConfigInit /\ [][ConfigNext]_vars

(***************************************************************************)
(* Properties of the configuration form                                    *)
(***************************************************************************)

\* the pair a handleConfigSubmit under way has sent for validation
SentPair(call) == [apiUrl |-> call.apiUrl, apiToken |-> call.apiToken]

\* a step that shows an error in config-error
ShowsConfigError == validation'.error # "" /\ validation' # validation

\* C22: the stored apiUrl and apiToken change only in the step that handles a
\* valid answer of validateToken, and then to exactly the pair that was sent
\* for validation, which no edit of the form changes while the answer is
\* awaited; a step that shows an error (an empty field, an invalid answer, a
\* failed message) leaves the storage and the screen as they were.
C22_StoredOnlyAfterValidAnswer ==
    [][ /\ storage' # storage =>
              /\ validation.pc = "answered"
              /\ validation.valid
              /\ storage' = SentPair(validation)
        /\ (validation.pc = "sent" /\ validation'.pc # "none") =>
              SentPair(validation') = SentPair(validation)
        /\ ShowsConfigError => (storage' = storage /\ screen' = screen) ]_vars

\* a pair typed by the user was validated and stored, and the popup went to
\* the save screen
C22_Witness ==
    /\ storage = [apiUrl |-> <<"v">>, apiToken |-> <<"n">>]
    /\ validation.pc = "none"
    /\ validation.disabled
    /\ screen.shown = "save"

\* the text holds a bullet of the mask
Bulleted(s) == \E i \in 1..Len(s) : s[i] = "*"

\* C28: no token sent for validation and no stored token holds the mask; a
\* submit of a field that is still masked sends the stored token; a submit
\* after the field got the focus and was edited sends what the user typed,
\* trimmed.
C28_MaskNeverSentNorStored ==
    /\ ~Bulleted(storage.apiToken)
    /\ validation.pc # "none" =>
          /\ ~Bulleted(validation.apiToken)
          /\ validation.field.masked => validation.apiToken = validation.stored
          /\ (validation.field.touched /\ validation.field.typed # <<>>) =>
                validation.apiToken = Trim(validation.field.typed)

====
